---- MODULE Spec2Model ----
(***************************************************************************)
(* Fuzzy heart-rate risk engines of src/main.py: the module-level          *)
(* universes and membership curves, the membership lookup grade, and the   *)
(* three inference functions crisp_risk (Mamdani), sugeno_infer (zero      *)
(* order Sugeno) and sugeno1_infer (first order Sugeno).                   *)
(*                                                                         *)
(* Numbers.  The program computes in binary floating point.  Here a real   *)
(* is a fixed-point integer: n stands for n / Scale, and every product     *)
(* and quotient is rounded down to that resolution where the program       *)
(* rounds to the nearest double.  A quotient that the program returns      *)
(* (the centroid, the weighted average) is kept as an exact fraction       *)
(* <<numerator, denominator>> of fixed-point numbers.                      *)
(*                                                                         *)
(* Library.  numpy and scikit-fuzzy are not part of the repository; the    *)
(* operators linspace, zmf, smf, trimf, interp_membership, defuzz and      *)
(* centroid follow the behaviour of the released libraries at their call   *)
(* sites in src/main.py.                                                   *)
(***************************************************************************)
EXTENDS Integers, Sequences, FiniteSets, TLC

\* ------------------------------------------------------------------------
\* Fixed-point arithmetic
\* ------------------------------------------------------------------------

\* n stands for the real number n / Scale (dtype=float in the program).
Scale == 10000

Fx(int) == int * Scale

\* Tenths(85) is 8.5.
Tenths(t) == (t * Scale) \div 10

FxMul(a, b) == (a * b) \div Scale

FxDiv(a, b) == (a * Scale) \div b

Min2(a, b) == IF a <= b THEN a ELSE b

Max2(a, b) == IF a >= b THEN a ELSE b

\* np.clip(v, lo, hi)
clip(v, lo, hi) == Max2(lo, Min2(v, hi))

\* The sum of s[lo..hi], by halves.
RECURSIVE SumRange(_, _, _)
SumRange(s, lo, hi) ==
    IF lo > hi THEN 0
    ELSE IF lo = hi THEN s[lo]
    ELSE LET mid == (lo + hi) \div 2
         IN  SumRange(s, lo, mid) + SumRange(s, mid + 1, hi)

\* np.sum(s)
SeqSum(s) == SumRange(s, 1, Len(s))

\* ------------------------------------------------------------------------
\* Age-aware resting heart-rate band
\* ------------------------------------------------------------------------

AGE_YEARS == 30

IS_ATHLETE == FALSE

\* hr_normal_band_by_age: the age is given in hundredths of a year, the band
\* in beats per minute.
hr_normal_band_by_age(age100, athlete) ==
    LET band == IF age100 < 42 THEN <<100, 160>>
                ELSE IF age100 < 100 THEN <<80, 140>>
                ELSE IF age100 < 300 THEN <<80, 130>>
                ELSE IF age100 < 600 THEN <<80, 120>>
                ELSE IF age100 < 1100 THEN <<70, 110>>
                ELSE IF age100 < 1500 THEN <<60, 105>>
                ELSE <<60, 100>>
    IN  IF athlete /\ age100 >= 1500
        THEN <<Max2(40, band[1] - 15), band[2]>>
        ELSE band

\* ------------------------------------------------------------------------
\* numpy / scikit-fuzzy operators used to build the knowledge base
\* ------------------------------------------------------------------------

\* np.linspace(start, stop, num): num evenly spaced samples, both ends
\* included (start and stop are whole numbers).
linspace(start, stop, num) ==
    [k \in 1..num |-> Fx(start) + (Fx(stop - start) * (k - 1)) \div (num - 1)]

\* zmf1 without its second parabola half: 0 from the midpoint of a and b.
zmf1_first_half(v, a, b) ==
    IF 2 * v >= a + b THEN 0
    ELSE IF v >= a
         THEN LET t == FxDiv(v - a, b - a) IN Scale - 2 * FxMul(t, t)
    ELSE Scale

\* fuzz.zmf(x, a, b): 1 below a, two parabola halves between a and b, 0 from b.
zmf1(v, a, b) ==
    IF v >= b THEN 0
    ELSE IF 2 * v >= a + b
         THEN LET t == FxDiv(v - b, b - a) IN 2 * FxMul(t, t)
    ELSE IF v >= a
         THEN LET t == FxDiv(v - a, b - a) IN Scale - 2 * FxMul(t, t)
    ELSE Scale

zmf(x, a, b) == [k \in 1..Len(x) |-> zmf1(x[k], a, b)]

\* fuzz.smf(x, a, b): 0 up to a, two parabola halves between a and b, 1 after.
smf1(v, a, b) ==
    IF v <= a THEN 0
    ELSE IF 2 * v <= a + b
         THEN LET t == FxDiv(v - a, b - a) IN 2 * FxMul(t, t)
    ELSE IF v <= b
         THEN LET t == FxDiv(v - b, b - a) IN Scale - 2 * FxMul(t, t)
    ELSE Scale

smf(x, a, b) == [k \in 1..Len(x) |-> smf1(x[k], a, b)]

\* fuzz.trimf(x, [a, b, c]): 0 outside (a, c), 1 at b, linear between.
trimf1(v, a, b, c) ==
    IF v = b THEN Scale
    ELSE IF a # b /\ a < v /\ v < b THEN FxDiv(v - a, b - a)
    ELSE IF b # c /\ b < v /\ v < c THEN FxDiv(c - v, c - b)
    ELSE 0

trimf(x, a, b, c) == [k \in 1..Len(x) |-> trimf1(x[k], a, b, c)]

\* ------------------------------------------------------------------------
\* State
\* ------------------------------------------------------------------------

VARIABLES
    HR_LO, HR_HI,                       \* subject's normal band (bpm)
    hr, sym, risk,                      \* universes
    hr_low, hr_normal, hr_high,         \* heart-rate membership curves
    sym_low, sym_med, sym_high,         \* symptom membership curves
    risk_low, risk_med, risk_high,      \* risk (consequent) curves
    SUGENO_Z,                           \* zero-order constants
    DEFAULT_TSK1_COEFFS,                \* first-order coefficients
    pc, call, ret                       \* per caller: position, arguments, result

globals == <<HR_LO, HR_HI, hr, sym, risk, hr_low, hr_normal, hr_high,
             sym_low, sym_med, sym_high, risk_low, risk_med, risk_high,
             SUGENO_Z, DEFAULT_TSK1_COEFFS>>

vars == <<globals, pc, call, ret>>

\* The knowledge base as the module builds it on import.
Init_HR == hr_normal_band_by_age(AGE_YEARS * 100, IS_ATHLETE)

SUGENO_Z_0 == [LOW |-> Tenths(20), MED |-> Tenths(50), HIGH |-> Tenths(85)]

keys == <<"H1", "H2", "H3", "H4", "H5", "M1", "M2", "M3", "M4", "L1">>

\* Each coefficient row is <<a0, a1, a2>>.
DEFAULT_TSK1_COEFFS_0 ==
    [k \in {keys[i] : i \in 1..10} |->
        CASE k = "H1" -> <<Tenths(70), Tenths(0), Tenths(18)>>
          [] k = "H2" -> <<Tenths(72), Tenths(0), Tenths(20)>>
          [] k = "H3" -> <<Tenths(70), Tenths(8), Tenths(18)>>
          [] k = "H4" -> <<Tenths(75), Tenths(8), Tenths(17)>>
          [] k = "H5" -> <<Tenths(72), Tenths(5), Tenths(18)>>
          [] k = "M1" -> <<Tenths(40), Tenths(0), Tenths(8)>>
          [] k = "M2" -> <<Tenths(44), Tenths(8), Tenths(6)>>
          [] k = "M3" -> <<Tenths(48), Tenths(3), Tenths(12)>>
          [] k = "M4" -> <<Tenths(40), Tenths(10), Tenths(0)>>
          [] k = "L1" -> <<Tenths(25), Tenths(2), Tenths(-8)>>]

Callers == {1, 2}

NoCall == [fn |-> "", hr_val |-> 0, hr_off |-> 0, sym_val |-> 0, and_op |-> "",
           z_vals |-> <<>>, coeffs |-> <<>>, given |-> {}]

NoMu == [mu_hr_low |-> 0, mu_hr_norm |-> 0, mu_hr_high |-> 0,
         mu_sym_low |-> 0, mu_sym_med |-> 0, mu_sym_high |-> 0]

NoRet == [exc |-> "", crisp |-> <<0, 1>>, mu |-> NoMu, w |-> <<>>,
          z |-> <<>>, contrib |-> <<>>, denom |-> 0, hrn |-> 0, symn |-> 0,
          info |-> <<>>, aggregated |-> <<>>]

InitGlobals ==
    /\ HR_LO = Init_HR[1]
    /\ HR_HI = Init_HR[2]
    /\ hr = linspace(30, 200, 400)
    /\ sym = linspace(0, 10, 200)
    /\ risk = linspace(0, 10, 200)
    /\ hr_low = zmf(hr, Fx(HR_LO - 12), Fx(HR_LO))
    /\ hr_normal = trimf(hr, Fx(HR_LO), Fx(HR_LO + HR_HI) \div 2, Fx(HR_HI))
    /\ hr_high = smf(hr, Fx(HR_HI), Fx(HR_HI + 12))
    /\ sym_low = zmf(sym, Fx(2), Fx(4))
    /\ sym_med = trimf(sym, Fx(3), Fx(5), Fx(7))
    /\ sym_high = smf(sym, Fx(6), Fx(8))
    /\ risk_low = trimf(risk, Fx(0), Fx(0), Fx(4))
    /\ risk_med = trimf(risk, Fx(2), Fx(5), Fx(8))
    /\ risk_high = trimf(risk, Fx(6), Fx(10), Fx(10))
    /\ SUGENO_Z = SUGENO_Z_0
    /\ DEFAULT_TSK1_COEFFS = DEFAULT_TSK1_COEFFS_0

Init ==
    /\ InitGlobals
    /\ pc = [t \in Callers |-> "idle"]
    /\ call = [t \in Callers |-> NoCall]
    /\ ret = [t \in Callers |-> NoRet]

\* ------------------------------------------------------------------------
\* Membership lookup
\* ------------------------------------------------------------------------

\* np.interp's search: the index j in lo..hi with x[j] <= xx < x[j+1].
RECURSIVE bisect(_, _, _, _)
bisect(x, xx, lo, hi) ==
    IF lo >= hi THEN lo
    ELSE LET mid == (lo + hi + 1) \div 2
         IN  IF x[mid] <= xx THEN bisect(x, xx, mid, hi)
             ELSE bisect(x, xx, lo, mid - 1)

\* fuzz.interp_membership(x, xmf, xx) with its default zero_outside_x=True:
\* np.interp(xx, x, xmf, left=0.0, right=0.0), linear between two samples.
interp_membership(x, xmf, xx) ==
    LET n == Len(x)
    IN  IF xx < x[1] \/ xx > x[n] THEN 0
        ELSE IF xx = x[n] THEN xmf[n]
        ELSE LET j == bisect(x, xx, 1, n - 1)
             IN  xmf[j] + ((xmf[j + 1] - xmf[j]) * (xx - x[j])) \div (x[j + 1] - x[j])

grade(x, mf_x, val) == interp_membership(x, mf_x, val)

\* The six antecedent degrees of one call, in the order
\* hr_low, hr_norm, hr_high, sym_low, sym_med, sym_high.
antecedents(hr_val, sym_val) ==
    [mu_hr_low   |-> grade(hr, hr_low, hr_val),
     mu_hr_norm  |-> grade(hr, hr_normal, hr_val),
     mu_hr_high  |-> grade(hr, hr_high, hr_val),
     mu_sym_low  |-> grade(sym, sym_low, sym_val),
     mu_sym_med  |-> grade(sym, sym_med, sym_val),
     mu_sym_high |-> grade(sym, sym_high, sym_val)]

\* 0.5 * v
Half(v) == FxMul(Scale \div 2, v)

\* ------------------------------------------------------------------------
\* Mamdani engine
\* ------------------------------------------------------------------------

\* crisp_risk_strengths with the antecedents of r_med_1 and r_med_2 exchanged.
crisp_risk_strengths_med_swapped(mu) ==
    << Min2(mu.mu_hr_low,  mu.mu_sym_med),
       Min2(mu.mu_hr_low,  mu.mu_sym_high),
       Min2(mu.mu_hr_high, mu.mu_sym_med),
       Min2(mu.mu_hr_high, mu.mu_sym_high),
       Min2(mu.mu_hr_norm, mu.mu_sym_high),
       Min2(mu.mu_hr_high, mu.mu_sym_low),
       Min2(mu.mu_hr_low,  mu.mu_sym_low),
       Min2(mu.mu_hr_norm, mu.mu_sym_med),
       Half(Max2(mu.mu_hr_low, mu.mu_hr_high)),
       Min2(mu.mu_hr_norm, mu.mu_sym_low) >>

\* Rule strengths of crisp_risk, in the order r_hi_1..r_hi_5,
\* r_med_1..r_med_4, r_low_1.
crisp_risk_strengths(mu) ==
    << Min2(mu.mu_hr_low,  mu.mu_sym_med),
       Min2(mu.mu_hr_low,  mu.mu_sym_high),
       Min2(mu.mu_hr_high, mu.mu_sym_med),
       Min2(mu.mu_hr_high, mu.mu_sym_high),
       Min2(mu.mu_hr_norm, mu.mu_sym_high),
       Min2(mu.mu_hr_low,  mu.mu_sym_low),
       Min2(mu.mu_hr_high, mu.mu_sym_low),
       Min2(mu.mu_hr_norm, mu.mu_sym_med),
       Half(Max2(mu.mu_hr_low, mu.mu_hr_high)),
       Min2(mu.mu_hr_norm, mu.mu_sym_low) >>

\* np.fmax.reduce over the clipped consequents, then np.fmax across classes.
aggregate(r) ==
    [k \in 1..Len(risk) |->
        LET act_hi  == Max2(Min2(risk_high[k], r[1]),
                       Max2(Min2(risk_high[k], r[2]),
                       Max2(Min2(risk_high[k], r[3]),
                       Max2(Min2(risk_high[k], r[4]),
                            Min2(risk_high[k], r[5])))))
            act_med == Max2(Min2(risk_med[k], r[6]),
                       Max2(Min2(risk_med[k], r[7]),
                       Max2(Min2(risk_med[k], r[8]),
                            Min2(risk_med[k], r[9]))))
            act_low == Min2(risk_low[k], r[10])
        IN  Max2(act_low, Max2(act_med, act_hi))]

\* np.finfo(float).eps, the spacing of the numbers at 1.0: one unit here.
FloatEps == 1

\* centroid_piece without the factor 0.5 in the moment of a flat piece.
centroid_piece_flat_sum(x1, x2, y1, y2) ==
    IF (y1 = y2 /\ y2 = 0) \/ x1 = x2 THEN <<0, 0>>
    ELSE LET ma ==
               IF y1 = y2
               THEN <<x1 + x2, FxMul(x2 - x1, y1)>>
               ELSE IF y1 = 0 /\ y2 # 0
               THEN <<FxMul((2 * Scale) \div 3, x2 - x1) + x1,
                      Half(FxMul(x2 - x1, y2))>>
               ELSE IF y2 = 0 /\ y1 # 0
               THEN <<FxMul(Scale \div 3, x2 - x1) + x1,
                      Half(FxMul(x2 - x1, y1))>>
               ELSE <<FxDiv(FxMul(FxMul((2 * Scale) \div 3, x2 - x1),
                                  y2 + Half(y1)), y1 + y2) + x1,
                      Half(FxMul(x2 - x1, y1 + y2))>>
         IN  <<FxMul(ma[1], ma[2]), ma[2]>>

\* One trapezoid of skfuzzy's centroid: <<moment * area, area>> of the
\* piece between samples i-1 and i.
centroid_piece(x1, x2, y1, y2) ==
    IF (y1 = y2 /\ y2 = 0) \/ x1 = x2 THEN <<0, 0>>
    ELSE LET ma ==
               IF y1 = y2
               THEN <<(x1 + x2) \div 2, FxMul(x2 - x1, y1)>>
               ELSE IF y1 = 0 /\ y2 # 0
               THEN <<FxMul((2 * Scale) \div 3, x2 - x1) + x1,
                      Half(FxMul(x2 - x1, y2))>>
               ELSE IF y2 = 0 /\ y1 # 0
               THEN <<FxMul(Scale \div 3, x2 - x1) + x1,
                      Half(FxMul(x2 - x1, y1))>>
               ELSE <<FxDiv(FxMul(FxMul((2 * Scale) \div 3, x2 - x1),
                                  y2 + Half(y1)), y1 + y2) + x1,
                      Half(FxMul(x2 - x1, y1 + y2))>>
         IN  <<FxMul(ma[1], ma[2]), ma[2]>>

\* The loop of centroid: <<sum_moment_area, sum_area>> over the pieces
\* that end at samples lo..hi (the sums are taken by halves).
RECURSIVE centroid_sums(_, _, _, _)
centroid_sums(x, mfx, lo, hi) ==
    IF lo > hi THEN <<0, 0>>
    ELSE IF lo = hi
    THEN centroid_piece(x[lo - 1], x[lo], mfx[lo - 1], mfx[lo])
    ELSE LET mid == (lo + hi) \div 2
             l == centroid_sums(x, mfx, lo, mid)
             r == centroid_sums(x, mfx, mid + 1, hi)
         IN  <<l[1] + r[1], l[2] + r[2]>>

\* skfuzzy's centroid(x, mfx): sum_moment_area / fmax(sum_area, eps).
centroid(x, mfx) ==
    IF Len(x) = 1
    THEN <<FxMul(x[1], mfx[1]), Max2(mfx[1], FloatEps)>>
    ELSE LET s == centroid_sums(x, mfx, 2, Len(x))
         IN  <<s[1], Max2(s[2], FloatEps)>>

\* fuzz.defuzz(x, mfx, 'centroid'): raises when the curve sums to zero.
defuzz(x, mfx) ==
    IF SeqSum(mfx) = 0
    THEN [exc |-> "EmptyMembershipError", value |-> <<0, 1>>]
    ELSE [exc |-> "", value |-> centroid(x, mfx)]

crisp_risk(hr_val, sym_val) ==
    LET mu == antecedents(hr_val, sym_val)
        r == crisp_risk_strengths(mu)
        aggregated == aggregate(r)
        crisp == defuzz(risk, aggregated)
    IN  [NoRet EXCEPT !.exc = crisp.exc, !.crisp = crisp.value,
                      !.mu = mu, !.w = r, !.aggregated = aggregated]

\* ------------------------------------------------------------------------
\* Sugeno engines
\* ------------------------------------------------------------------------

labels == << "H1: HR Low & Sym Med -> High",
             "H2: HR Low & Sym High -> High",
             "H3: HR High & Sym Med -> High",
             "H4: HR High & Sym High -> High",
             "H5: HR Normal & Sym High -> High",
             "M1: HR Low & Sym Low -> Med",
             "M2: HR High & Sym Low -> Med",
             "M3: HR Normal & Sym Med -> Med",
             "M4: 0.5*max(HR Low, HR High) -> Med",
             "L1: HR Normal & Sym Low -> Low" >>

\* AND with the product as the fallback: min for "min", product otherwise.
AND_product_otherwise(a, b, and_op) ==
    IF and_op = "min" THEN Min2(a, b) ELSE FxMul(a, b)

\* The t-norm of both Sugeno engines: product for "prod", min otherwise.
AND(a, b, and_op) == IF and_op = "prod" THEN FxMul(a, b) ELSE Min2(a, b)

\* sugeno_weights whose baseline is max(HR Low, HR High), the 0.5 missing.
sugeno_weights_full_baseline(mu, and_op) ==
    [i \in 1..10 |->
        IF i = 9 THEN Max2(mu.mu_hr_low, mu.mu_hr_high)
        ELSE AND(mu[<<"mu_hr_low", "mu_hr_low", "mu_hr_high", "mu_hr_high",
                      "mu_hr_norm", "mu_hr_low", "mu_hr_high", "mu_hr_norm",
                      "", "mu_hr_norm">>[i]],
                 mu[<<"mu_sym_med", "mu_sym_high", "mu_sym_med", "mu_sym_high",
                      "mu_sym_high", "mu_sym_low", "mu_sym_low", "mu_sym_med",
                      "", "mu_sym_low">>[i]],
                 and_op)]

\* The weight vector w of sugeno_infer.
sugeno_weights(mu, and_op) ==
    << AND(mu.mu_hr_low,  mu.mu_sym_med,  and_op),
       AND(mu.mu_hr_low,  mu.mu_sym_high, and_op),
       AND(mu.mu_hr_high, mu.mu_sym_med,  and_op),
       AND(mu.mu_hr_high, mu.mu_sym_high, and_op),
       AND(mu.mu_hr_norm, mu.mu_sym_high, and_op),
       AND(mu.mu_hr_low,  mu.mu_sym_low,  and_op),
       AND(mu.mu_hr_high, mu.mu_sym_low,  and_op),
       AND(mu.mu_hr_norm, mu.mu_sym_med,  and_op),
       Half(Max2(mu.mu_hr_low, mu.mu_hr_high)),
       AND(mu.mu_hr_norm, mu.mu_sym_low,  and_op) >>

\* sugeno1_weights whose baseline goes through AND(0.5, max(...)).
sugeno1_weights_and_baseline(mu, and_op) ==
    [i \in 1..10 |->
        IF i = 9 THEN AND(Scale \div 2, Max2(mu.mu_hr_low, mu.mu_hr_high), and_op)
        ELSE AND(mu[<<"mu_hr_low", "mu_hr_low", "mu_hr_high", "mu_hr_high",
                      "mu_hr_norm", "mu_hr_low", "mu_hr_high", "mu_hr_norm",
                      "", "mu_hr_norm">>[i]],
                 mu[<<"mu_sym_med", "mu_sym_high", "mu_sym_med", "mu_sym_high",
                      "mu_sym_high", "mu_sym_low", "mu_sym_low", "mu_sym_med",
                      "", "mu_sym_low">>[i]],
                 and_op)]

\* The weight vector w of sugeno1_infer.
sugeno1_weights(mu, and_op) ==
    << AND(mu.mu_hr_low,  mu.mu_sym_med,  and_op),
       AND(mu.mu_hr_low,  mu.mu_sym_high, and_op),
       AND(mu.mu_hr_high, mu.mu_sym_med,  and_op),
       AND(mu.mu_hr_high, mu.mu_sym_high, and_op),
       AND(mu.mu_hr_norm, mu.mu_sym_high, and_op),
       AND(mu.mu_hr_low,  mu.mu_sym_low,  and_op),
       AND(mu.mu_hr_high, mu.mu_sym_low,  and_op),
       AND(mu.mu_hr_norm, mu.mu_sym_med,  and_op),
       Half(Max2(mu.mu_hr_low, mu.mu_hr_high)),
       AND(mu.mu_hr_norm, mu.mu_sym_low,  and_op) >>

\* The threshold 1e-12 of the weight sum.  It lies below the resolution
\* 1 / Scale, so it is 0 units: a sum above it is a sum of at least one unit.
DENOM_EPS == 0

\* clip_risk without the clip.
clip_risk_none(f) == f

\* float(np.clip(f, 0.0, 10.0)) of a fraction f = <<n, d>>, d > 0, which
\* stands for the number n / d.
clip_risk(f) ==
    IF f[1] < 0 THEN <<0, 1>>
    ELSE IF f[1] > 10 * f[2] THEN <<10, 1>>
    ELSE f

\* sugeno_crisp with the guard denom >= 1e-12.
sugeno_crisp_from_eps(contrib, denom, eps) ==
    clip_risk(IF denom >= eps THEN <<SeqSum(contrib), denom>> ELSE <<0, 1>>)

\* sugeno_infer: crisp = sum(contrib) / denom if denom > 1e-12 else 0.0,
\* then the clip.  eps is the threshold in the unit of the weights.
sugeno_crisp(contrib, denom, eps) ==
    clip_risk(IF denom > eps THEN <<SeqSum(contrib), denom>> ELSE <<0, 1>>)

\* sugeno_infer from the rule weights on: mu are the antecedent degrees.
sugeno_infer_body(mu, and_op, z_vals, eps) ==
    LET w == sugeno_weights(mu, and_op)
        z == << z_vals.HIGH, z_vals.HIGH, z_vals.HIGH, z_vals.HIGH, z_vals.HIGH,
                z_vals.MED, z_vals.MED, z_vals.MED, z_vals.MED,
                z_vals.LOW >>
        contrib == [i \in 1..10 |-> FxMul(w[i], z[i])]
        denom == SeqSum(w)
        crisp == sugeno_crisp(contrib, denom, eps)
        weights_info == [i \in 1..Len(labels) |->
                           [rule |-> labels[i], weight |-> w[i], z |-> z[i],
                            contrib |-> contrib[i]]]
    IN  [NoRet EXCEPT !.crisp = crisp, !.mu = mu, !.w = w, !.z = z,
                      !.contrib = contrib, !.denom = denom,
                      !.info = weights_info]

sugeno_infer(hr_val, sym_val, and_op, z_vals) ==
    sugeno_infer_body(antecedents(hr_val, sym_val), and_op, z_vals, DENOM_EPS)

\* clamp((hr_val - HR_LO) / max(1e-9, HR_HI - HR_LO), 0..1); the band is in
\* whole beats per minute, so the width is at least 1 or at most 0.
hr_norm(hr_val) ==
    LET width == HR_HI - HR_LO
        d == hr_val - Fx(HR_LO)
    IN  IF width >= 1 THEN clip(d \div width, 0, Scale)
        ELSE IF d > 0 THEN Scale ELSE 0

\* clamp(sym_val / 10, 0..1)
sym_norm(sym_val) == clip(sym_val \div 10, 0, Scale)

\* sugeno1_crisp as the plain mean of the 10 contributions.
sugeno1_crisp_plain_mean(contrib, denom, eps) ==
    clip_risk(IF denom > eps THEN <<SeqSum(contrib), 10 * Scale>> ELSE <<0, 1>>)

\* sugeno1_infer: crisp = sum(contrib) / denom if denom > 1e-12 else 0.0,
\* then the clip.
sugeno1_crisp(contrib, denom, eps) ==
    clip_risk(IF denom > eps THEN <<SeqSum(contrib), denom>> ELSE <<0, 1>>)

\* sugeno1_infer from the rule weights on.
sugeno1_infer_body(mu, hr_val, sym_val, and_op, coeffs, eps) ==
    LET w == sugeno1_weights(mu, and_op)
        hrn == hr_norm(hr_val)
        symn == sym_norm(sym_val)
        C == IF coeffs = <<>> THEN DEFAULT_TSK1_COEFFS ELSE coeffs[1]
        a == [i \in 1..10 |-> C[keys[i]]]
        z == [i \in 1..10 |-> a[i][1] + FxMul(a[i][2], hrn) + FxMul(a[i][3], symn)]
        contrib == [i \in 1..10 |-> FxMul(w[i], z[i])]
        denom == SeqSum(w)
        crisp == sugeno1_crisp(contrib, denom, eps)
        info == [i \in 1..Len(keys) |->
                    [rule |-> labels[i], weight |-> w[i],
                     a |-> [a0 |-> a[i][1], a1_hrn |-> a[i][2], a2_symn |-> a[i][3]],
                     z |-> z[i], contrib |-> contrib[i]]]
    IN  [NoRet EXCEPT !.crisp = crisp, !.mu = mu, !.w = w, !.z = z,
                      !.contrib = contrib, !.denom = denom, !.hrn = hrn,
                      !.symn = symn, !.info = info]

sugeno1_infer(hr_val, sym_val, and_op, coeffs) ==
    sugeno1_infer_body(antecedents(hr_val, sym_val), hr_val, sym_val, and_op,
                       coeffs, DENOM_EPS)

\* ------------------------------------------------------------------------
\* Callers
\* ------------------------------------------------------------------------

\* Heart rates 20.0, 22.5, ... and symptom scores -1.0, -0.5, ... that the
\* callers pass: inside the universes, on their ends and outside them.
NumHrProbes == 77

NumSymProbes == 24

HrProbes == {Fx(20) + k * (Fx(5) \div 2) : k \in 0..NumHrProbes}

SymProbes == {Fx(-1) + k * (Fx(1) \div 2) : k \in 0..NumSymProbes}

\* Values of and_op a caller passes: the two documented ones and the
\* spelled-out name of the product.
AndOps == {"prod", "min", "product"}

\* Constant tables a caller passes as z_vals.
ZTables == { [LOW |-> Tenths(-30), MED |-> Tenths(50), HIGH |-> Tenths(120)] }

\* Coefficient tables a caller passes as coeffs.
CoeffTables ==
    { [k \in DOMAIN DEFAULT_TSK1_COEFFS_0 |->
          IF k = "L1" THEN <<Tenths(-20), Tenths(0), Tenths(-10)>>
          ELSE <<Tenths(90), Tenths(20), Tenths(30)>>] }

\* A caller binds the arguments of crisp_risk(hr_val, sym_val).
Invoke_crisp_risk(t, HRS, SYMS) ==
    /\ pc[t] = "idle"
    /\ \E h \in HRS, s \in SYMS :
          call' = [call EXCEPT ![t] =
                      [NoCall EXCEPT !.fn = "crisp_risk", !.hr_val = h,
                                     !.sym_val = s]]
    /\ pc' = [pc EXCEPT ![t] = "called"]
    /\ UNCHANGED <<globals, ret>>

\* A caller binds the arguments of sugeno_infer; and_op defaults to "prod"
\* and z_vals to SUGENO_Z.
Invoke_sugeno_infer(t, HRS, SYMS, OPS, ZS) ==
    /\ pc[t] = "idle"
    /\ \E h \in HRS, s \in SYMS, given \in SUBSET {"and_op", "z_vals"} :
       \E op \in IF "and_op" \in given THEN OPS ELSE {"prod"},
          zv \in IF "z_vals" \in given THEN ZS ELSE {SUGENO_Z} :
          call' = [call EXCEPT ![t] =
                      [NoCall EXCEPT !.fn = "sugeno_infer", !.hr_val = h,
                                     !.sym_val = s, !.and_op = op,
                                     !.z_vals = <<zv>>, !.given = given]]
    /\ pc' = [pc EXCEPT ![t] = "called"]
    /\ UNCHANGED <<globals, ret>>

\* A caller binds the arguments of sugeno1_infer; and_op defaults to "prod"
\* and coeffs to None (the empty sequence here).
Invoke_sugeno1_infer(t, HRS, SYMS, OPS, CS) ==
    /\ pc[t] = "idle"
    /\ \E h \in HRS, s \in SYMS, given \in SUBSET {"and_op", "coeffs"} :
       \E op \in IF "and_op" \in given THEN OPS ELSE {"prod"},
          cf \in IF "coeffs" \in given THEN {<<c>> : c \in CS} ELSE {<<>>} :
          call' = [call EXCEPT ![t] =
                      [NoCall EXCEPT !.fn = "sugeno1_infer", !.hr_val = h,
                                     !.sym_val = s, !.and_op = op,
                                     !.coeffs = cf, !.given = given]]
    /\ pc' = [pc EXCEPT ![t] = "called"]
    /\ UNCHANGED <<globals, ret>>

\* The body of crisp_risk runs and returns (or raises).
Run_crisp_risk(t) ==
    /\ pc[t] = "called"
    /\ call[t].fn = "crisp_risk"
    /\ ret' = [ret EXCEPT ![t] = crisp_risk(call[t].hr_val, call[t].sym_val)]
    /\ pc' = [pc EXCEPT ![t] = "done"]
    /\ UNCHANGED <<globals, call>>

\* Run_sugeno_infer that rescales the table it was given in place; the
\* default table is the module's SUGENO_Z itself.
Run_sugeno_infer_in_place(t) ==
    /\ pc[t] = "called"
    /\ call[t].fn = "sugeno_infer"
    /\ ret' = [ret EXCEPT ![t] =
                  sugeno_infer(call[t].hr_val, call[t].sym_val,
                               call[t].and_op, call[t].z_vals[1])]
    /\ pc' = [pc EXCEPT ![t] = "done"]
    /\ SUGENO_Z' = IF "z_vals" \in call[t].given THEN SUGENO_Z
                   ELSE [k \in DOMAIN SUGENO_Z |-> clip(SUGENO_Z[k], 0, Fx(8))]
    /\ UNCHANGED <<HR_LO, HR_HI, hr, sym, risk, hr_low, hr_normal, hr_high,
                   sym_low, sym_med, sym_high, risk_low, risk_med, risk_high,
                   DEFAULT_TSK1_COEFFS, call>>

\* The body of sugeno_infer runs and returns.
Run_sugeno_infer(t) ==
    /\ pc[t] = "called"
    /\ call[t].fn = "sugeno_infer"
    /\ ret' = [ret EXCEPT ![t] =
                  sugeno_infer(call[t].hr_val, call[t].sym_val,
                               call[t].and_op, call[t].z_vals[1])]
    /\ pc' = [pc EXCEPT ![t] = "done"]
    /\ UNCHANGED <<globals, call>>

\* The body of sugeno1_infer runs and returns.
Run_sugeno1_infer(t) ==
    /\ pc[t] = "called"
    /\ call[t].fn = "sugeno1_infer"
    /\ ret' = [ret EXCEPT ![t] =
                  sugeno1_infer(call[t].hr_val, call[t].sym_val,
                                call[t].and_op, call[t].coeffs)]
    /\ pc' = [pc EXCEPT ![t] = "done"]
    /\ UNCHANGED <<globals, call>>

\* The caller is done with the result and is free to call again.
Discard(t) ==
    /\ pc[t] = "done"
    /\ pc' = [pc EXCEPT ![t] = "idle"]
    /\ call' = [call EXCEPT ![t] = NoCall]
    /\ ret' = [ret EXCEPT ![t] = NoRet]
    /\ UNCHANGED globals

\* One caller, the full grid of probes.
Next ==
    \/ Invoke_crisp_risk(1, HrProbes, SymProbes)
    \/ Invoke_sugeno_infer(1, HrProbes, SymProbes, AndOps, ZTables)
    \/ Invoke_sugeno1_infer(1, HrProbes, SymProbes, AndOps, CoeffTables)
    \/ Run_crisp_risk(1)
    \/ Run_sugeno_infer(1)
    \/ Run_sugeno1_infer(1)
    \/ Discard(1)

Spec == Init /\ [][Next]_vars

\* Two callers whose calls interleave, on a few probes: one heart rate below
\* the universe, then low, between low and normal, normal and high ones.
PairHr == {Fx(25), Fx(40), Fx(54), Fx(75), Fx(110)}

PairSym == {Fx(1), Fx(7)}

NextPair ==
    \E t \in Callers :
        \/ Invoke_crisp_risk(t, PairHr, PairSym)
        \/ Invoke_sugeno_infer(t, PairHr, PairSym, {"min"}, ZTables)
        \/ Invoke_sugeno1_infer(t, PairHr, PairSym, {"min"}, CoeffTables)
        \/ Run_crisp_risk(t)
        \/ Run_sugeno_infer(t)
        \/ Run_sugeno1_infer(t)
        \/ Discard(t)

SpecPair == Init /\ [][NextPair]_vars

\* ------------------------------------------------------------------------
\* Calls at the threshold of the weight sum
\* ------------------------------------------------------------------------

\* A weight sum near 1e-12 arises where a heart-rate curve leaves zero while
\* the symptom score lies outside its universe: every conjunctive weight is
\* then exactly 0 and the sum is the baseline weight.  Such a heart rate is
\* the sample hr[j] plus an offset far below 1 / Scale, so these calls carry
\* the offset in call.hr_off, in units of 1e-13 bpm, and their degrees and
\* weights are in units of 1e-13.

\* The threshold 1e-12 in units of 1e-13.
NEAR_DENOM_EPS == 10

\* The sample after which HR High leaves zero.
HighEdge == CHOOSE j \in 1..(Len(hr) - 1) : hr_high[j] = 0 /\ hr_high[j + 1] > 0

\* np.interp at x[j] + off for a curve that is 0 at x[j]: slope * off.
near_grade(x, xmf, j, off) == ((xmf[j + 1] - xmf[j]) * off) \div (x[j + 1] - x[j])

\* The offset over which such a curve rises by one unit.
near_step(x, xmf, j) == (x[j + 1] - x[j]) \div (xmf[j + 1] - xmf[j]) + 1

\* A degree far above the threshold is kept as the largest number at hand.
NearTop == 2 ^ 30

\* The antecedent degrees at hr[HighEdge] + off: HR Low is 0 on both
\* samples, HR Normal is about 0.006, HR High is the slope times the offset.
near_antecedents(off, sym_val) ==
    [mu_hr_low   |-> near_grade(hr, hr_low, HighEdge, off),
     mu_hr_norm  |-> NearTop,
     mu_hr_high  |-> near_grade(hr, hr_high, HighEdge, off),
     mu_sym_low  |-> grade(sym, sym_low, sym_val),
     mu_sym_med  |-> grade(sym, sym_med, sym_val),
     mu_sym_high |-> grade(sym, sym_high, sym_val)]

\* Offsets 0, 1, ... steps past the sample, and symptom scores outside the
\* symptom universe.
MaxNearSteps == 45

NearOffsets == {k * near_step(hr, hr_high, HighEdge) : k \in 0..MaxNearSteps}

NearSyms == {Fx(-1), Fx(11)}

NearInvoke_sugeno_infer(t) ==
    /\ pc[t] = "idle"
    /\ \E off \in NearOffsets, s \in NearSyms, given \in SUBSET {"and_op"} :
       \E op \in IF "and_op" \in given THEN {"prod", "min"} ELSE {"prod"} :
          call' = [call EXCEPT ![t] =
                      [NoCall EXCEPT !.fn = "sugeno_infer",
                                     !.hr_val = hr[HighEdge], !.hr_off = off,
                                     !.sym_val = s, !.and_op = op,
                                     !.z_vals = <<SUGENO_Z>>, !.given = given]]
    /\ pc' = [pc EXCEPT ![t] = "called"]
    /\ UNCHANGED <<globals, ret>>

NearInvoke_sugeno1_infer(t) ==
    /\ pc[t] = "idle"
    /\ \E off \in NearOffsets, s \in NearSyms, given \in SUBSET {"and_op"} :
       \E op \in IF "and_op" \in given THEN {"prod", "min"} ELSE {"prod"} :
          call' = [call EXCEPT ![t] =
                      [NoCall EXCEPT !.fn = "sugeno1_infer",
                                     !.hr_val = hr[HighEdge], !.hr_off = off,
                                     !.sym_val = s, !.and_op = op,
                                     !.given = given]]
    /\ pc' = [pc EXCEPT ![t] = "called"]
    /\ UNCHANGED <<globals, ret>>

NearRun_sugeno_infer(t) ==
    /\ pc[t] = "called"
    /\ call[t].fn = "sugeno_infer"
    /\ ret' = [ret EXCEPT ![t] =
                  sugeno_infer_body(near_antecedents(call[t].hr_off, call[t].sym_val),
                                    call[t].and_op, call[t].z_vals[1],
                                    NEAR_DENOM_EPS)]
    /\ pc' = [pc EXCEPT ![t] = "done"]
    /\ UNCHANGED <<globals, call>>

NearRun_sugeno1_infer(t) ==
    /\ pc[t] = "called"
    /\ call[t].fn = "sugeno1_infer"
    /\ ret' = [ret EXCEPT ![t] =
                  sugeno1_infer_body(near_antecedents(call[t].hr_off, call[t].sym_val),
                                     call[t].hr_val, call[t].sym_val,
                                     call[t].and_op, call[t].coeffs,
                                     NEAR_DENOM_EPS)]
    /\ pc' = [pc EXCEPT ![t] = "done"]
    /\ UNCHANGED <<globals, call>>

NextEps ==
    \/ NearInvoke_sugeno_infer(1)
    \/ NearInvoke_sugeno1_infer(1)
    \/ NearRun_sugeno_infer(1)
    \/ NearRun_sugeno1_infer(1)
    \/ Discard(1)

SpecEps == Init /\ [][NextEps]_vars

\* ------------------------------------------------------------------------
\* Calls on the edges of the curves
\* ------------------------------------------------------------------------

\* The samples of x next to the breakpoint b, where a curve that ends at b
\* takes its last non-zero sampled degree.
NodesNear(x, b) ==
    {x[k] : k \in {j \in 1..Len(x) : x[j] - b < x[2] - x[1] /\ b - x[j] < x[2] - x[1]}}

\* Heart rates every 10 bpm across the universe, the ends of the normal band
\* and the samples next to them.
NumCoarseHr == 17

EdgeHr ==
    {Fx(30) + k * Fx(10) : k \in 0..NumCoarseHr}
        \cup {Fx(HR_LO), Fx(HR_HI)}
        \cup NodesNear(hr, Fx(HR_LO)) \cup NodesNear(hr, Fx(HR_HI))

\* Symptom scores 0, 1, ..., 10 and the samples next to the breakpoints at
\* which a symptom curve starts or ends.
NumCoarseSym == 10

EdgeSym ==
    {k * Fx(1) : k \in 0..NumCoarseSym}
        \cup NodesNear(sym, Fx(3)) \cup NodesNear(sym, Fx(4))
        \cup NodesNear(sym, Fx(6)) \cup NodesNear(sym, Fx(7))

NextEdge ==
    \/ Invoke_crisp_risk(1, EdgeHr, EdgeSym)
    \/ Invoke_sugeno_infer(1, EdgeHr, EdgeSym, {"prod", "min"}, ZTables)
    \/ Invoke_sugeno1_infer(1, EdgeHr, EdgeSym, {"prod", "min"}, CoeffTables)
    \/ Run_crisp_risk(1)
    \/ Run_sugeno_infer(1)
    \/ Run_sugeno1_infer(1)
    \/ Discard(1)

SpecEdge == Init /\ [][NextEdge]_vars

\* ------------------------------------------------------------------------
\* Properties
\* ------------------------------------------------------------------------

Done(t) == pc[t] = "done"

IsSugeno(t) == call[t].fn \in {"sugeno_infer", "sugeno1_infer"}

\* The two antecedents of each conjunctive rule, as the rule labels name
\* them (rule 9, M4, is the baseline and has none).
RuleAntecedents ==
    << <<"mu_hr_low",  "mu_sym_med">>,  <<"mu_hr_low",  "mu_sym_high">>,
       <<"mu_hr_high", "mu_sym_med">>,  <<"mu_hr_high", "mu_sym_high">>,
       <<"mu_hr_norm", "mu_sym_high">>, <<"mu_hr_low",  "mu_sym_low">>,
       <<"mu_hr_high", "mu_sym_low">>,  <<"mu_hr_norm", "mu_sym_med">>,
       <<"mu_hr_low",  "mu_hr_high">>,  <<"mu_hr_norm", "mu_sym_low">> >>

Conjunctive == (1..10) \ {9}

\* A fraction <<n, d>> lies in the risk range [0, 10].
InRisk(f) ==
    /\ f[2] > 0
    /\ 0 <= f[1]
    /\ f[1] <= 10 * f[2]

\* C1: every call computes exactly 10 rule weights, in the order H1..H5,
\* M1..M4, L1 (each conjunctive weight is bounded by the two degrees its
\* label names, and the Sugeno breakdown lists them under the labels in that
\* order); each weight lies in [0, 1] and the baseline weight M4 in [0, 0.5].
C1_WeightsInRange ==
    \A t \in Callers : Done(t) =>
        /\ Len(ret[t].w) = 10
        /\ \A i \in 1..10 : 0 <= ret[t].w[i] /\ ret[t].w[i] <= Scale
        /\ 0 <= ret[t].w[9] /\ 2 * ret[t].w[9] <= Scale
        /\ \A i \in Conjunctive :
              /\ ret[t].w[i] <= ret[t].mu[RuleAntecedents[i][1]]
              /\ ret[t].w[i] <= ret[t].mu[RuleAntecedents[i][2]]
        /\ IsSugeno(t) =>
              /\ Len(ret[t].info) = 10
              /\ \A i \in 1..10 : /\ ret[t].info[i].rule = labels[i]
                                  /\ ret[t].info[i].weight = ret[t].w[i]

\* A call with min as AND where M1 reaches 1 and the baseline reaches 0.5.
C1_Witness ==
    \E t \in Callers :
        /\ Done(t) /\ call[t].fn = "sugeno_infer" /\ call[t].and_op = "min"
        /\ ret[t].w[6] = Scale
        /\ 2 * ret[t].w[9] = Scale

\* C3: the crisp risk of sugeno_infer and of sugeno1_infer lies in [0, 10],
\* whatever the heart rate, the symptom score, the AND operator and the
\* constant or coefficient table.
C3_SugenoInRange ==
    \A t \in Callers : Done(t) /\ IsSugeno(t) =>
        ret[t].exc = "" /\ InRisk(ret[t].crisp)

\* A Sugeno call whose weighted average lies above 10 and comes back as 10.
C3_Witness ==
    \E t \in Callers :
        /\ Done(t) /\ IsSugeno(t) /\ ret[t].denom > 0
        /\ SeqSum(ret[t].contrib) >= 11 * ret[t].denom
        /\ ret[t].crisp = <<10, 1>>

InDomain(t) ==
    /\ Fx(30) <= call[t].hr_val /\ call[t].hr_val <= Fx(200)
    /\ Fx(0) <= call[t].sym_val /\ call[t].sym_val <= Fx(10)

\* C4: for a heart rate in [30, 200] and a symptom score in [0, 10]
\* crisp_risk returns a centroid that lies in [0, 10].
C4_MamdaniInRange ==
    \A t \in Callers : Done(t) /\ call[t].fn = "crisp_risk" /\ InDomain(t) =>
        ret[t].exc = "" /\ InRisk(ret[t].crisp)

\* A Mamdani call in the domain that returns a risk of 6 or more.
C4_Witness ==
    \E t \in Callers :
        /\ Done(t) /\ call[t].fn = "crisp_risk" /\ InDomain(t)
        /\ ret[t].exc = ""
        /\ ret[t].crisp[1] >= 6 * ret[t].crisp[2]

\* C5: when all antecedent degrees are zero, so that the aggregated curve is
\* identically zero, crisp_risk fails with DegenerateAggregationError or
\* returns a default value in the risk range; it raises nothing else.
C5_DegeneratePolicy ==
    \A t \in Callers :
        Done(t) /\ call[t].fn = "crisp_risk" /\ SeqSum(ret[t].aggregated) = 0 =>
            \/ ret[t].exc = "DegenerateAggregationError"
            \/ ret[t].exc = "" /\ InRisk(ret[t].crisp)

\* C7: a query below the first sample of a universe gets the degrees stored
\* at the first sample, a query above the last sample those stored at the
\* last one.
C7_ClampedOutside ==
    \A t \in Callers : Done(t) =>
        /\ call[t].hr_val < hr[1] =>
              /\ ret[t].mu.mu_hr_low = hr_low[1]
              /\ ret[t].mu.mu_hr_norm = hr_normal[1]
              /\ ret[t].mu.mu_hr_high = hr_high[1]
        /\ call[t].hr_val > hr[Len(hr)] =>
              /\ ret[t].mu.mu_hr_low = hr_low[Len(hr)]
              /\ ret[t].mu.mu_hr_norm = hr_normal[Len(hr)]
              /\ ret[t].mu.mu_hr_high = hr_high[Len(hr)]
        /\ call[t].sym_val < sym[1] =>
              /\ ret[t].mu.mu_sym_low = sym_low[1]
              /\ ret[t].mu.mu_sym_med = sym_med[1]
              /\ ret[t].mu.mu_sym_high = sym_high[1]
        /\ call[t].sym_val > sym[Len(sym)] =>
              /\ ret[t].mu.mu_sym_low = sym_low[Len(sym)]
              /\ ret[t].mu.mu_sym_med = sym_med[Len(sym)]
              /\ ret[t].mu.mu_sym_high = sym_high[Len(sym)]

ProductWeights(t) ==
    \A i \in Conjunctive :
        ret[t].w[i] = (ret[t].mu[RuleAntecedents[i][1]]
                       * ret[t].mu[RuleAntecedents[i][2]]) \div Scale

MinWeights(t) ==
    \A i \in Conjunctive :
        ret[t].w[i] = Min2(ret[t].mu[RuleAntecedents[i][1]],
                           ret[t].mu[RuleAntecedents[i][2]])

\* C8 as first stated: a Sugeno call that selects "product" gets a*b for
\* each of the 9 conjunctive weights and one that selects "min" gets
\* min(a, b); without a selection Sugeno uses the product; Mamdani uses min.
C8_ProductOrMin ==
    \A t \in Callers : Done(t) =>
        /\ IsSugeno(t) /\ "and_op" \in call[t].given /\ call[t].and_op = "product"
              => ProductWeights(t)
        /\ IsSugeno(t) /\ "and_op" \in call[t].given /\ call[t].and_op = "min"
              => MinWeights(t)
        /\ IsSugeno(t) /\ "and_op" \notin call[t].given => ProductWeights(t)
        /\ call[t].fn = "crisp_risk" => MinWeights(t)

\* C8: a Sugeno call that selects "prod" gets a*b for each of the 9
\* conjunctive weights; one that selects "min", or any other value such as
\* "product", gets min(a, b); without a selection Sugeno uses the product;
\* Mamdani uses min.
C8_ProdOrMin ==
    \A t \in Callers : Done(t) =>
        /\ IsSugeno(t) /\ "and_op" \in call[t].given /\ call[t].and_op = "prod"
              => ProductWeights(t)
        /\ IsSugeno(t) /\ "and_op" \in call[t].given /\ call[t].and_op # "prod"
              => MinWeights(t)
        /\ IsSugeno(t) /\ "and_op" \notin call[t].given => ProductWeights(t)
        /\ call[t].fn = "crisp_risk" => MinWeights(t)

\* A Sugeno call that selects "product" and gets the minimum, which differs
\* from the product, as the weight of H1.
C8_Witness ==
    \E t \in Callers :
        /\ Done(t) /\ IsSugeno(t)
        /\ "and_op" \in call[t].given /\ call[t].and_op = "product"
        /\ ret[t].w[1] = Min2(ret[t].mu.mu_hr_low, ret[t].mu.mu_sym_med)
        /\ ret[t].w[1] # (ret[t].mu.mu_hr_low * ret[t].mu.mu_sym_med) \div Scale

\* The constant or coefficient table a Sugeno call works with.
TableOf(t) ==
    IF call[t].fn = "sugeno_infer" THEN call[t].z_vals[1]
    ELSE IF call[t].coeffs = <<>> THEN DEFAULT_TSK1_COEFFS
    ELSE call[t].coeffs[1]

ClassOf(i) == IF i <= 5 THEN "HIGH" ELSE IF i <= 9 THEN "MED" ELSE "LOW"

RECURSIVE InfoSum(_, _, _)
InfoSum(info, field, n) ==
    IF n = 0 THEN 0 ELSE info[n][field] + InfoSum(info, field, n - 1)

\* C9: the breakdown of a Sugeno call has 10 entries; each contribution is
\* weight times z; z is the constant of the rule's class in sugeno_infer and
\* a0 + a1*hrNorm + a2*symNorm, with the rule's coefficients and the
\* normalised inputs, in sugeno1_infer; and when the weights do not sum to
\* zero the crisp risk is the sum of the contributions over the sum of the
\* weights, clamped to [0, 10].
C9_Breakdown ==
    \A t \in Callers : Done(t) /\ IsSugeno(t) =>
        /\ Len(ret[t].info) = 10
        /\ \A i \in 1..10 :
              ret[t].info[i].contrib =
                  (ret[t].info[i].weight * ret[t].info[i].z) \div Scale
        /\ call[t].fn = "sugeno_infer" =>
              \A i \in 1..10 : ret[t].info[i].z = TableOf(t)[ClassOf(i)]
        /\ call[t].fn = "sugeno1_infer" =>
              /\ ret[t].hrn = clip((call[t].hr_val - Fx(HR_LO)) \div (HR_HI - HR_LO),
                                   0, Scale)
              /\ ret[t].symn = clip(call[t].sym_val \div 10, 0, Scale)
              /\ \A i \in 1..10 :
                    LET a == TableOf(t)[keys[i]] IN
                    ret[t].info[i].z =
                        a[1] + (a[2] * ret[t].hrn) \div Scale
                             + (a[3] * ret[t].symn) \div Scale
        /\ InfoSum(ret[t].info, "weight", 10) > 0 =>
              LET n == InfoSum(ret[t].info, "contrib", 10)
                  d == InfoSum(ret[t].info, "weight", 10)
              IN  ret[t].crisp = IF n < 0 THEN <<0, 1>>
                                 ELSE IF n > 10 * d THEN <<10, 1>>
                                 ELSE <<n, d>>

\* A first-order call with its own coefficient table whose weighted average
\* lies strictly between 0 and 10.
C9_Witness ==
    \E t \in Callers :
        /\ Done(t) /\ call[t].fn = "sugeno1_infer" /\ call[t].coeffs # <<>>
        /\ ret[t].denom > Scale
        /\ ret[t].crisp[2] = ret[t].denom
        /\ ret[t].crisp[1] > ret[t].denom

\* C2: in all three engines the baseline weight is 0.5 * max(HR Low degree,
\* HR High degree): the same for product and min, and the same for two calls
\* that differ in anything but the heart rate.
C2_Baseline ==
    /\ \A t \in Callers : Done(t) =>
          ret[t].w[9] = ((Scale \div 2) * Max2(ret[t].mu.mu_hr_low,
                                               ret[t].mu.mu_hr_high)) \div Scale
    /\ \A t, u \in Callers :
          Done(t) /\ Done(u) /\ call[t].hr_val = call[u].hr_val
              => ret[t].w[9] = ret[u].w[9]

\* A Mamdani call and a first-order call with min as AND, on one heart rate
\* and two symptom scores, with a baseline weight strictly between 0 and 0.5.
C2_Witness ==
    /\ Done(1) /\ Done(2)
    /\ call[1].fn = "crisp_risk" /\ call[2].fn = "sugeno1_infer"
    /\ call[2].and_op = "min"
    /\ call[1].hr_val = call[2].hr_val /\ call[1].sym_val # call[2].sym_val
    /\ 0 < ret[1].w[9] /\ 2 * ret[1].w[9] < Scale
    /\ ret[2].w[9] = ret[1].w[9]

SameCallSameResult ==
    \A t, u \in Callers :
        Done(t) /\ Done(u) /\ call[t] = call[u] => ret[t] = ret[u]

\* C10: in every interleaving of the calls of two callers, two finished
\* calls with the same arguments and tables hold the same result, and no
\* step changes the universes, the curves or the constant and coefficient
\* tables.
C10_Independent ==
    /\ []SameCallSameResult
    /\ [][globals' = globals]_vars

\* Both callers hold the result of the same first-order call.
C10_Witness ==
    /\ Done(1) /\ Done(2)
    /\ call[1] = call[2] /\ call[1].fn = "sugeno1_infer"
    /\ ret[1] = ret[2] /\ ret[1].denom > 0

\* The weighted average that the breakdown of a call gives, clamped.
ClampedAverage(t) ==
    LET n == SeqSum(ret[t].contrib)
        d == ret[t].denom
    IN  IF n < 0 THEN <<0, 1>> ELSE IF n > 10 * d THEN <<10, 1>> ELSE <<n, d>>

\* C6 as first stated: a Sugeno call raises no error; when the weights sum
\* to less than 1e-12 it returns 0, and for every other sum, 1e-12 itself
\* included, it returns the clamped weighted average.
C6_ZeroBelowEps ==
    \A t \in Callers : Done(t) /\ IsSugeno(t) =>
        /\ ret[t].exc = ""
        /\ ret[t].denom < NEAR_DENOM_EPS => ret[t].crisp = <<0, 1>>
        /\ ret[t].denom >= NEAR_DENOM_EPS => ret[t].crisp = ClampedAverage(t)

\* C6: a Sugeno call raises no error; when the weights sum to 1e-12 or
\* less it returns 0, and for every sum above 1e-12 it returns the clamped
\* weighted average.
C6_ZeroUpToEps ==
    \A t \in Callers : Done(t) /\ IsSugeno(t) =>
        /\ ret[t].exc = ""
        /\ ret[t].denom <= NEAR_DENOM_EPS => ret[t].crisp = <<0, 1>>
        /\ ret[t].denom > NEAR_DENOM_EPS => ret[t].crisp = ClampedAverage(t)

\* A call whose weights sum to exactly 1e-12, with a positive sum of
\* contributions, that returns 0.
C6_Witness ==
    \E t \in Callers :
        /\ Done(t) /\ IsSugeno(t)
        /\ ret[t].denom = NEAR_DENOM_EPS
        /\ SeqSum(ret[t].contrib) > 0
        /\ ret[t].crisp = <<0, 1>>

\* C11: with the default configuration (band 60..100, default AND, default
\* constants and coefficients) each of the three engines returns a risk
\* strictly above 6.5 for hr = 110 and sym = 7.
C11_HighAbove ==
    \A t \in Callers :
        /\ Done(t)
        /\ call[t].hr_val = Fx(110) /\ call[t].sym_val = Fx(7)
        /\ call[t].given = {}
        => /\ ret[t].exc = ""
           /\ 2 * ret[t].crisp[1] > 13 * ret[t].crisp[2]

SameInput(t, u) ==
    /\ Done(t) /\ Done(u)
    /\ call[t].hr_val = call[u].hr_val /\ call[t].sym_val = call[u].sym_val

\* C12: for one input and one AND operator sugeno_infer and sugeno1_infer
\* compute the same 10 weights, rule by rule, and with min as AND these are
\* the 10 rule strengths that crisp_risk computes for that input.
C12_SharedRuleBase ==
    \A t, u \in Callers : SameInput(t, u) =>
        /\ IsSugeno(t) /\ IsSugeno(u) /\ call[t].and_op = call[u].and_op
              => \A i \in 1..10 : ret[t].w[i] = ret[u].w[i]
        /\ IsSugeno(t) /\ call[t].and_op = "min" /\ call[u].fn = "crisp_risk"
              => /\ Len(ret[t].w) = 10 /\ Len(ret[u].w) = 10
                 /\ \A i \in 1..10 : ret[t].w[i] = ret[u].w[i]

\* A Mamdani call and a zero-order call with min as AND on one input where
\* M1 and the baseline fire and M2 does not.
C12_Witness ==
    /\ SameInput(1, 2)
    /\ call[1].fn = "crisp_risk"
    /\ call[2].fn = "sugeno_infer" /\ call[2].and_op = "min"
    /\ ret[1].w = ret[2].w
    /\ ret[1].w[6] > 0 /\ ret[1].w[7] = 0 /\ ret[1].w[9] > 0

\* C13: for a heart rate in [30, 200], a symptom score in [0, 10] and either
\* AND operator at least one of the 10 weights is strictly positive: the
\* aggregated curve of crisp_risk is not identically zero and defuzz does
\* not raise, and the Sugeno engines take the weighted average, not the
\* zero-sum branch.
C13_Coverage ==
    \A t \in Callers : Done(t) /\ InDomain(t) =>
        /\ \E i \in 1..10 : ret[t].w[i] > 0
        /\ call[t].fn = "crisp_risk" =>
              /\ \E k \in 1..Len(ret[t].aggregated) : ret[t].aggregated[k] > 0
              /\ ret[t].exc = ""
        /\ IsSugeno(t) => ret[t].denom > DENOM_EPS

\* A product call on the sample just below the normal band, where HR Normal
\* is 0, HR Low is small, and the symptom score sits on the end of a curve.
C13_Witness ==
    \E t \in Callers :
        /\ Done(t) /\ InDomain(t) /\ IsSugeno(t) /\ call[t].and_op = "prod"
        /\ call[t].hr_val \in NodesNear(hr, Fx(HR_LO))
        /\ call[t].sym_val = Fx(3)
        /\ ret[t].mu.mu_hr_norm = 0 /\ ret[t].mu.mu_hr_high = 0
        /\ ret[t].mu.mu_hr_low > 0
        /\ ret[t].denom > 0

====
